---------------------------- MODULE Spec2Model ----------------------------
(***************************************************************************)
(* Model of the webhook core of the Feishu task bot:                       *)
(*   - app/services/ci.py   CIService (signature check, status             *)
(*                          normalisation, commit extraction)              *)
(*   - app/main.py          github_webhook_endpoint, feishu_event          *)
(*   - app/bitable.py       BitableClient (task lookup, status update)     *)
(*   - app/services/feishu.py FeishuClient.send_message                    *)
(*                                                                         *)
(* The spreadsheet backend and the SDK behind BitableClient and            *)
(* event_handler are not part of the repository: each call of them either  *)
(* succeeds or fails, chosen freely.  BitableClient catches every failure  *)
(* of a backend call (bitable.py:67-69, bitable.py:110-112); this covers   *)
(* the wiring of main.py:20, which hands BitableClient the FeishuClient    *)
(* wrapper, an object without the attribute the calls start from.          *)
(*                                                                         *)
(* Seven specifications share the variables:                               *)
(*   Spec        the CI webhook endpoint, two workers interleaving at the  *)
(*               backend awaits;                                           *)
(*   SpecVerify  CIService.verify_github_signature as a pure function of   *)
(*               (secret, body, header);                                   *)
(*   SpecFeishu  the chat-platform endpoint feishu_event;                  *)
(*   SpecNormalize  CIService.parse_github_status as a pure function of    *)
(*               the webhook payload;                                      *)
(*   SpecExtract CIService.extract_commit_info as a pure function of the   *)
(*               webhook payload;                                          *)
(*   SpecSweep   the hourly job check_inactive_tasks;                      *)
(*   SpecPagesFair  the page loop of BitableClient._get_all_records.       *)
(***************************************************************************)
EXTENDS Naturals, Sequences, FiniteSets

VARIABLES
    github_secret,   \* CIService.github_secret (ci.py:22, set at main.py:107)
    table,           \* the task table held by the backend, in listing order
    req,             \* per worker: the webhook request it is handling
    sent,            \* chat messages accepted by FeishuClient.send_message
    delivered,       \* number of CI webhook deliveries accepted so far
    vcase,           \* SpecVerify: the inputs and the result of one call
    encrypt_key,     \* settings.feishu.encrypt_key (config.py:22)
    verify_sign,     \* event_handler._verify_sign: "original" or "noop"
    freq,            \* SpecFeishu: the last chat-platform request and its outcome
    dispatched,      \* SpecFeishu: calls of event_handler.do, in order
    fcount,          \* SpecFeishu: number of chat-platform requests so far
    ncase,           \* SpecNormalize: a payload and the results of normalising it
    ecase,           \* SpecExtract: a payload and the results of extracting from it
    sweep_tasks,     \* SpecSweep: the task table held by the backend
    reminders,       \* SpecSweep: reminder messages handed to send_message, all runs
    sweep_result,    \* SpecSweep: what the last run of the job did
    sweep_runs,      \* SpecSweep: number of runs of the job so far
    pager,           \* SpecPagesFair: locals of _get_all_records (all_records, page_token)
    pages,           \* SpecPagesFair: the page responses received, in order
    asked            \* SpecPagesFair: the page token of each request sent, in order

vars == <<github_secret, table, req, sent, delivered, vcase,
          encrypt_key, verify_sign, freq, dispatched, fcount, ncase, ecase,
          sweep_tasks, reminders, sweep_result, sweep_runs, pager, pages, asked>>

ciVars == <<github_secret, table, req, sent, delivered>>
verifyVars == <<vcase>>
feishuVars == <<encrypt_key, verify_sign, freq, dispatched, fcount>>
normVars == <<ncase>>
extractVars == <<ecase>>
sweepVars == <<sweep_tasks, reminders, sweep_result, sweep_runs>>
pageVars == <<pager, pages, asked>>

(***************************************************************************)
(* Bounds of the model.                                                    *)
(***************************************************************************)
\* CI webhook deliveries accepted in one behaviour.
MaxDeliveries == 2
\* Longest signature header, in tokens, explored by SpecVerify.
MaxHeaderLen == 3
\* Chat-platform requests handled in one behaviour.
MaxFeishuRequests == 2
\* Runs of the inactivity job in one behaviour.
MaxSweeps == 2
\* The page by which the backend stops reporting more data.
MaxPages == 3

(***************************************************************************)
(* Values.                                                                 *)
(***************************************************************************)
\* Python None / a configuration value that is not set.
None == "<None>"
\* A key that the JSON object does not have.
Absent == "<absent>"
\* JSON null.
Null == "<null>"

\* class CIState (ci.py:9-14)
CI_UNKNOWN == "Unknown"
CI_PENDING == "Pending"
CI_GREEN == "Green"
CI_RED == "Red"
CIState == {CI_UNKNOWN, CI_PENDING, CI_GREEN, CI_RED}

\* class TaskStatus (bitable.py:17-25)
DRAFT == "Draft"
ASSIGNED == "Assigned"
IN_PROGRESS == "InProgress"
RETURNED == "Returned"
DONE == "Done"
ARCHIVED == "Archived"
CI_PASS == "CI Pass"
CI_FAIL == "CI Fail"
TaskStatus == {DRAFT, ASSIGNED, IN_PROGRESS, RETURNED, DONE, ARCHIVED, CI_PASS, CI_FAIL}

\* Commit SHAs are strings; a string is a sequence of characters.
ShaA == <<"a", "1", "b", "2", "c", "3", "d", "4", "e">>
\* Differs from ShaA only after the seventh character.
ShaA2 == <<"a", "1", "b", "2", "c", "3", "d", "9", "9">>
ShaB == <<"b", "0", "b", "0", "b", "0", "b", "0">>
\* Shorter than seven characters.
ShaShort == <<"f", "0">>
EmptyStr == <<>>

Min(a, b) == IF a <= b THEN a ELSE b


(***************************************************************************)
(* Webhook bodies.  A body is either text that is not JSON, a JSON value   *)
(* that is not an object, or a JSON object; the object's keys the code     *)
(* reads are the fields below.  A nested value has kind Absent (no such    *)
(* key), "dict" (a JSON object) or "other" (null, a number, a list, ...).  *)
(***************************************************************************)
NoObj == [kind |-> Absent, conclusion |-> Absent, head_sha |-> EmptyStr,
          html_url |-> "", head_branch |-> ""]
Obj(conclusion, sha) ==
    [kind |-> "dict", conclusion |-> conclusion, head_sha |-> sha,
     html_url |-> "https://ci/run", head_branch |-> "main"]
BadObj == [NoObj EXCEPT !.kind = "other"]

NoRepo == [kind |-> Absent, full_name |-> ""]
Repo(name) == [kind |-> "dict", full_name |-> name]

NoCommit == [kind |-> Absent, message |-> "", html_url |-> ""]

CommitEntry(id, message, url) == [kind |-> "dict", id |-> id, message |-> message, url |-> url]

EmptyPayload ==
    [json |-> "dict", action |-> Absent, state |-> Absent,
     workflow_run |-> NoObj, check_suite |-> NoObj,
     status_key |-> FALSE, sha |-> EmptyStr, commit |-> NoCommit,
     repository |-> NoRepo, commits |-> <<>>]

\* The body of tests/integration/test_webhooks.py:114-123, by conclusion and SHA.
CheckSuite(conclusion, sha) ==
    [EmptyPayload EXCEPT !.action = "completed",
                         !.check_suite = Obj(conclusion, sha),
                         !.repository = Repo("test/repo")]

NonJsonBody == [EmptyPayload EXCEPT !.json = "invalid"]
NonObjectBody == [EmptyPayload EXCEPT !.json = "other"]

(***************************************************************************)
(* CIService.parse_github_status (ci.py:71-120).  Any exception inside     *)
(* the try block (a payload that is no object, a shape value that is no    *)
(* object, a missing "conclusion" key) is caught and None is returned.     *)
(***************************************************************************)
\* A table of the run-shaped events that forgets "timed_out".
MapConclusion_NoTimedOut(status) ==
    IF status = "success" THEN CI_GREEN
    ELSE IF status \in {"failure", "cancelled"} THEN CI_RED
    ELSE IF status \in {"waiting", "queued", "in_progress"} THEN CI_PENDING
    ELSE CI_UNKNOWN

\* ci.py:87-92 and ci.py:97-102: the table of the two run-shaped events.
MapConclusion(status) ==
    IF status = "success" THEN CI_GREEN
    ELSE IF status \in {"failure", "cancelled", "timed_out"} THEN CI_RED
    ELSE IF status \in {"waiting", "queued", "in_progress"} THEN CI_PENDING
    ELSE CI_UNKNOWN

\* One table shared by every shape.
MapState_Uniform(state) ==
    IF state = "success" THEN CI_GREEN
    ELSE IF state \in {"failure", "cancelled", "timed_out", "error"} THEN CI_RED
    ELSE IF state \in {"waiting", "queued", "in_progress", "pending"} THEN CI_PENDING
    ELSE CI_UNKNOWN

\* ci.py:106-112: the table of the bare status event.
MapState(state) ==
    IF state = "success" THEN CI_GREEN
    ELSE IF state \in {"failure", "error"} THEN CI_RED
    ELSE IF state = "pending" THEN CI_PENDING
    ELSE CI_UNKNOWN

\* payload[shape]["conclusion"], then the table; None when the subscript raises.
ShapeStatus(obj) ==
    IF obj.kind # "dict" \/ obj.conclusion = Absent THEN None
    ELSE MapConclusion(obj.conclusion)

\* A normaliser that looks at check_suite before workflow_run.
ParseGithubStatus_CheckSuiteFirst(payload) ==
    IF payload.json # "dict" THEN None
    ELSE IF payload.check_suite.kind # Absent THEN ShapeStatus(payload.check_suite)
    ELSE IF payload.workflow_run.kind # Absent THEN ShapeStatus(payload.workflow_run)
    ELSE IF payload.action = "status" THEN MapState(payload.state)
    ELSE CI_UNKNOWN

ParseGithubStatus(payload) ==
    IF payload.json # "dict" THEN None
    ELSE IF payload.workflow_run.kind # Absent THEN ShapeStatus(payload.workflow_run)
    ELSE IF payload.check_suite.kind # Absent THEN ShapeStatus(payload.check_suite)
    ELSE IF payload.action = "status" THEN MapState(payload.state)
    ELSE CI_UNKNOWN

(***************************************************************************)
(* CIService.extract_commit_info (ci.py:122-181).  The result dictionary   *)
(* is filled step by step; an exception at any step returns it as filled   *)
(* so far.                                                                 *)
(***************************************************************************)
EmptyInfo == [sha |-> EmptyStr, message |-> "", url |-> "", branch |-> "", repo |-> ""]

\* ci.py:142-143.  ok = FALSE: the step raised.
InfoRepo(payload, result) ==
    IF payload.repository.kind = Absent THEN [ok |-> TRUE, result |-> result]
    ELSE IF payload.repository.kind # "dict" THEN [ok |-> FALSE, result |-> result]
    ELSE [ok |-> TRUE, result |-> [result EXCEPT !.repo = payload.repository.full_name]]

FromShape(obj, result) ==
    IF obj.kind # "dict" THEN [ok |-> FALSE, result |-> result]
    ELSE [ok |-> TRUE,
          result |-> [result EXCEPT !.sha = obj.head_sha, !.url = obj.html_url,
                                    !.branch = obj.head_branch]]

\* ci.py:146-165
InfoPrimary(payload, result) ==
    IF payload.workflow_run.kind # Absent THEN FromShape(payload.workflow_run, result)
    ELSE IF payload.check_suite.kind # Absent THEN FromShape(payload.check_suite, result)
    ELSE IF payload.status_key THEN
        LET r1 == [result EXCEPT !.sha = payload.sha]
        IN  IF payload.commit.kind = Absent THEN [ok |-> TRUE, result |-> r1]
            ELSE IF payload.commit.kind # "dict" THEN [ok |-> FALSE, result |-> r1]
            ELSE [ok |-> TRUE,
                  result |-> [r1 EXCEPT !.message = payload.commit.message,
                                        !.url = payload.commit.html_url]]
    ELSE [ok |-> TRUE, result |-> result]

\* A fallback that lets commits[0] replace what the primary shape supplied.
InfoCommits_Overwrite(payload, result) ==
    IF payload.commits = <<>> THEN result
    ELSE LET commit == payload.commits[1]
         IN  IF commit.kind # "dict" THEN result
             ELSE [result EXCEPT !.sha = commit.id, !.message = commit.message,
                                 !.url = commit.url]

\* ci.py:168-175
InfoCommits(payload, result) ==
    IF payload.commits = <<>> THEN result
    ELSE LET commit == payload.commits[1]
             needs == result.sha = EmptyStr \/ result.message = "" \/ result.url = ""
         IN  IF commit.kind # "dict" THEN result   \* commit.get raises, or nothing to fill
             ELSE IF ~needs THEN result
             ELSE [result EXCEPT
                     !.sha = IF result.sha = EmptyStr THEN commit.id ELSE @,
                     !.message = IF result.message = "" THEN commit.message ELSE @,
                     !.url = IF result.url = "" THEN commit.url ELSE @]

ExtractCommitInfo(payload) ==
    IF payload.json # "dict" THEN EmptyInfo
    ELSE LET a == InfoRepo(payload, EmptyInfo)
         IN  IF ~a.ok THEN a.result
             ELSE LET b == InfoPrimary(payload, a.result)
                  IN  IF ~b.ok THEN b.result
                      ELSE InfoCommits(payload, b.result)


(***************************************************************************)
(* Signature headers.  A header value is a string, modelled as a sequence  *)
(* of tokens: "=" , a word, or a hex digest.  A digest is determined by    *)
(* the algorithm, the key and the body it was computed over (no            *)
(* collisions); bodies are named by their index in Bodies.                 *)
(***************************************************************************)
EqTok == [kind |-> "eq", text |-> "=", key |-> "", body |-> 0]
Word(w) == [kind |-> "word", text |-> w, key |-> "", body |-> 0]
\* hmac.new(key, msg, digestmod).hexdigest() (ci.py:49-64)
Hmac(algo, key, b) == [kind |-> "hex", text |-> algo, key |-> key, body |-> b]

\* str.lower() on a word (ci.py:48, ci.py:54); digests are lower-case hex already.
Lower(tok) ==
    IF tok.kind # "word" THEN tok
    ELSE IF tok.text \in {"SHA1", "Sha1"} THEN Word("sha1")
    ELSE IF tok.text \in {"SHA256", "Sha256"} THEN Word("sha256")
    ELSE tok

LowerAll(toks) == [i \in 1..Len(toks) |-> Lower(toks[i])]

\* Position of the first "=" of the header, 0 when it has none.
FirstEq(signature) ==
    IF \E i \in 1..Len(signature) : signature[i] = EqTok
    THEN CHOOSE i \in 1..Len(signature) :
            /\ signature[i] = EqTok
            /\ \A j \in 1..(i - 1) : signature[j] # EqTok
    ELSE 0

\* digestmod chosen by the algorithm token (ci.py:48-62); None: unsupported.
DigestMod(algo) ==
    IF LowerAll(algo) = <<Word("sha1")>> THEN "sha1"
    ELSE IF LowerAll(algo) = <<Word("sha256")>> THEN "sha256"
    ELSE None

\* A verifier that trusts a header it cannot interpret.
VerifyGithubSignature_FailOpen(secret, b, signature) ==
    IF secret = None \/ secret = "" THEN TRUE
    ELSE IF FirstEq(signature) = 0 THEN TRUE
    ELSE LET i == FirstEq(signature)
             algo == SubSeq(signature, 1, i - 1)
             sig == SubSeq(signature, i + 1, Len(signature))
         IN  IF DigestMod(algo) = None THEN TRUE
             ELSE sig = <<Hmac(DigestMod(algo), secret, b)>>

\* A verifier that checks the algorithm token and never compares the digest.
VerifyGithubSignature_NoCompare(secret, b, signature) ==
    IF secret = None \/ secret = "" THEN TRUE
    ELSE IF FirstEq(signature) = 0 THEN FALSE
    ELSE DigestMod(SubSeq(signature, 1, FirstEq(signature) - 1)) # None

\* A verifier that checks the signature even when no secret is configured.
VerifyGithubSignature_Strict(secret, b, signature) ==
    LET key == IF secret = None THEN "" ELSE secret
    IN  IF FirstEq(signature) = 0 THEN FALSE
        ELSE LET i == FirstEq(signature)
                 algo == SubSeq(signature, 1, i - 1)
                 sig == SubSeq(signature, i + 1, Len(signature))
             IN  IF DigestMod(algo) = None THEN FALSE
                 ELSE sig = <<Hmac(DigestMod(algo), key, b)>>

\* CIService.verify_github_signature (ci.py:28-69)
VerifyGithubSignature(secret, b, signature) ==
    IF secret = None \/ secret = "" THEN TRUE
    ELSE IF FirstEq(signature) = 0 THEN FALSE      \* the unpacking raises ValueError
    ELSE LET i == FirstEq(signature)
             algo == SubSeq(signature, 1, i - 1)
             sig == SubSeq(signature, i + 1, Len(signature))
         IN  IF DigestMod(algo) = None THEN FALSE
             ELSE sig = <<Hmac(DigestMod(algo), secret, b)>>


(***************************************************************************)
(* The CI webhook endpoint, github_webhook_endpoint (main.py:109-155).     *)
(***************************************************************************)
Workers == {"w1", "w2"}

\* The bodies delivered to the endpoint.
Bodies ==
    << CheckSuite("success", ShaA),                       \* 1: the test's body
       CheckSuite("failure", ShaA),                       \* 2
       CheckSuite("queued", ShaA),                        \* 3: Pending
       CheckSuite("neutral", ShaA),                       \* 4: Unknown
       CheckSuite("success", ShaA2),                      \* 5: no task has this SHA
       CheckSuite("success", EmptyStr),                   \* 6: no SHA anywhere
       CheckSuite("success", ShaB),                       \* 7: task without a chat
       CheckSuite(Absent, ShaA),                          \* 8: no "conclusion" key
       [CheckSuite("failure", EmptyStr) EXCEPT            \* 9: SHA from commits[0]
            !.commits = <<CommitEntry(ShaShort, "msg", "https://c/1")>>],
       [CheckSuite("success", ShaB) EXCEPT                \* 10: two shapes
            !.workflow_run = Obj("failure", ShaA)],
       [CheckSuite("success", ShaA) EXCEPT                \* 11: no repository
            !.repository = NoRepo],
       NonObjectBody,                                     \* 12: JSON, not an object
       NonJsonBody >>                                     \* 13: "some body"
BodyIds == 1..Len(Bodies)

Events == {"check_suite", "ping"}

\* The secret the provider signs with, and the header values it may send.
ProviderSecret == "test_github_secret"
GoodSignature(b) == <<Word("sha256"), EqTok, Hmac("sha256", ProviderSecret, b)>>
BadSignature == <<Word("sha256"), EqTok, Word("invalid")>>
\* The requests delivered: every body as a correctly signed check_suite
\* event, and some bodies under another event type or a wrong signature.
OtherBodies == {1, 5, 12, 13}
Deliveries ==
    {[event |-> "check_suite", signature |-> GoodSignature(b), body |-> b] : b \in BodyIds}
    \cup {[event |-> e, signature |-> sg, body |-> b] :
             e \in Events, sg \in {GoodSignature(1), BadSignature}, b \in {1}}
    \cup {[event |-> "ping", signature |-> GoodSignature(b), body |-> b] : b \in OtherBodies}
    \cup {[event |-> "check_suite", signature |-> BadSignature, body |-> b] : b \in OtherBodies}

Task(id, status, sha, chat) ==
    [record_id |-> id, status |-> status, github_commit_sha |-> sha, child_chat_id |-> chat]
NoTask == Task(None, None, EmptyStr, "")

\* The task tables the backend may hold when the service starts.
InitTables ==
    { << Task("rec_1", s1, ShaA, "oc_456"),
         Task("rec_2", ARCHIVED, ShaA, ""),
         Task("rec_3", ASSIGNED, ShaB, ""),
         Task("rec_4", IN_PROGRESS, ShaShort, "oc_789") >> :
      s1 \in TaskStatus }

NoMessage == [kind |-> None, repo |-> "", short |-> EmptyStr]
NoInfo == EmptyInfo

IdleRequest ==
    [pc |-> "idle", event |-> None, signature |-> <<>>, body |-> 0,
     parsed |-> FALSE, status |-> None, commit_info |-> NoInfo, task |-> NoTask,
     lookup |-> "none", updated |-> "none", new_status |-> None,
     message |-> NoMessage, notified |-> 0, response |-> 0]

\* The message built with the whole SHA.
ShortSha_Full(sha) == sha

\* commit_sha[:7] (main.py:144, main.py:147)
ShortSha(sha) == SubSeq(sha, 1, Min(7, Len(sha)))

\* The f-strings of main.py:144 and main.py:147: an outcome mark, the
\* repository name and the short SHA.
CiMessage(kind, info) == [kind |-> kind, repo |-> info.repo, short |-> ShortSha(info.sha)]

\* A handler whose final branch treats every state but Green as a failure.
StatusFor_ElseFail(status) ==
    IF status = CI_GREEN THEN CI_PASS ELSE CI_FAIL

\* TaskStatus written for a CI state (main.py:142-147); None: nothing is written.
StatusFor(status) ==
    IF status = CI_GREEN THEN CI_PASS
    ELSE IF status = CI_RED THEN CI_FAIL
    ELSE None

\* Response when no task carries the commit SHA (main.py:136-138).
NoTaskResponse == 200

\* FeishuClient.send_message(self, receive_id_type, receive_id, content,
\* msg_type="interactive") (feishu.py:29): the positional arguments a call
\* must and may pass.
SendMessageRequired == 3
SendMessageAccepted == 4
\* feishu_client.send_message(task["child_chat_id"], message) (main.py:153)
WebhookSendArgs == 2
\* Whether a call with n positional arguments binds; if not, TypeError.
SendMessageBinds(n) == n >= SendMessageRequired /\ n <= SendMessageAccepted

\* BitableClient.get_task_by_commit (bitable.py:138-144) over
\* _get_all_records (bitable.py:36-70): the records the backend's filter
\* selects, the first of them, or None; a failed or raising list call
\* yields no records.
MatchingRecords(tbl, sha) == SelectSeq(tbl, LAMBDA t : t.github_commit_sha = sha)
\* A lookup that falls back to the first record of the table.
GetTaskByCommit_FirstRecord(tbl, sha, ok) ==
    LET records == IF ok THEN MatchingRecords(tbl, sha) ELSE <<>>
    IN  IF records # <<>> THEN records[1]
        ELSE IF ok /\ tbl # <<>> THEN tbl[1] ELSE NoTask

\* A lookup that takes the last of the matching records.
GetTaskByCommit_LastRecord(tbl, sha, ok) ==
    LET records == IF ok THEN MatchingRecords(tbl, sha) ELSE <<>>
    IN  IF records # <<>> THEN records[Len(records)] ELSE NoTask

GetTaskByCommit(tbl, sha, ok) ==
    LET records == IF ok THEN MatchingRecords(tbl, sha) ELSE <<>>
    IN  IF records # <<>> THEN records[1] ELSE NoTask

\* An update that writes the first record of the table, whatever the id.
UpdateTaskStatus_FirstRow(tbl, record_id, status, ok) ==
    IF ok /\ tbl # <<>>
    THEN [tbl EXCEPT ![1] = [tbl[1] EXCEPT !.status = status]]
    ELSE tbl

\* BitableClient.update_task_status -> update_task -> update_record
\* (bitable.py:94-128): the backend writes the status of the record with
\* that id when the batch_update call succeeds.
UpdateTaskStatus(tbl, record_id, status, ok) ==
    IF ok
    THEN [i \in 1..Len(tbl) |->
            IF tbl[i].record_id = record_id THEN [tbl[i] EXCEPT !.status = status]
            ELSE tbl[i]]
    ELSE tbl

\* A handler that looks the task up without checking that a SHA was extracted.
Receive_NoShaCheck(event, signature, b) ==
    LET payload == Bodies[b]
        base == [IdleRequest EXCEPT !.event = event, !.signature = signature, !.body = b]
    IN  IF ~VerifyGithubSignature(github_secret, b, signature)
        THEN [base EXCEPT !.pc = "done", !.response = 403]
        ELSE IF payload.json = "invalid"
        THEN [base EXCEPT !.pc = "done", !.response = 500]
        ELSE IF event # "check_suite"
        THEN [base EXCEPT !.pc = "done", !.response = 200]
        ELSE [base EXCEPT !.pc = "lookup", !.parsed = TRUE,
                          !.status = ParseGithubStatus(payload),
                          !.commit_info = ExtractCommitInfo(payload)]

\* main.py:115-132: everything up to the first backend call.
Receive(event, signature, b) ==
    LET payload == Bodies[b]
        status == ParseGithubStatus(payload)
        info == ExtractCommitInfo(payload)
        base == [IdleRequest EXCEPT !.event = event, !.signature = signature, !.body = b]
    IN  IF ~VerifyGithubSignature(github_secret, b, signature)
        THEN [base EXCEPT !.pc = "done", !.response = 403]
        ELSE IF payload.json = "invalid"               \* request.json() raises
        THEN [base EXCEPT !.pc = "done", !.response = 500]
        ELSE IF event # "check_suite"
        THEN [base EXCEPT !.pc = "done", !.response = 200]
        ELSE IF info.sha = EmptyStr
        THEN [base EXCEPT !.pc = "done", !.response = 400, !.parsed = TRUE,
                          !.status = status, !.commit_info = info]
        ELSE [base EXCEPT !.pc = "lookup", !.parsed = TRUE,
                          !.status = status, !.commit_info = info]

Deliver(w) ==
    /\ req[w].pc \in {"idle", "done"}
    /\ delivered < MaxDeliveries
    /\ \E d \in Deliveries :
         req' = [req EXCEPT ![w] = Receive(d.event, d.signature, d.body)]
    /\ delivered' = delivered + 1
    /\ UNCHANGED <<github_secret, table, sent>>

\* main.py:135-149: the lookup returns and the handler runs to its next await.
Lookup(w) ==
    /\ req[w].pc = "lookup"
    /\ \E ok \in BOOLEAN :
         LET r == req[w]
             task == GetTaskByCommit(table, r.commit_info.sha, ok)
             found == [r EXCEPT !.task = task, !.lookup = IF ok THEN "ok" ELSE "failed"]
         IN  req' = [req EXCEPT ![w] =
                IF task = NoTask
                THEN [found EXCEPT !.pc = "done", !.response = NoTaskResponse]
                ELSE IF StatusFor(r.status) = None
                THEN [found EXCEPT !.pc = "done", !.response = 200]
                ELSE [found EXCEPT !.pc = "update", !.new_status = StatusFor(r.status)]]
    /\ UNCHANGED <<github_secret, table, sent, delivered>>

\* A handler that puts the old status back when the notification fails.
Update_Rollback(w) ==
    /\ req[w].pc = "update"
    /\ \E ok \in BOOLEAN :
         LET r == req[w]
             message == CiMessage(IF r.status = CI_GREEN THEN "success" ELSE "failure",
                                  r.commit_info)
             notify == r.task.child_chat_id # ""
             binds == SendMessageBinds(WebhookSendArgs)
             upd == [r EXCEPT !.updated = IF ok THEN "ok" ELSE "failed",
                              !.message = message, !.pc = "done"]
         IN  IF notify /\ ~binds
             THEN /\ table' = table
                  /\ req' = [req EXCEPT ![w] = [upd EXCEPT !.response = 500]]
                  /\ sent' = sent
             ELSE /\ table' = UpdateTaskStatus(table, r.task.record_id, r.new_status, ok)
                  /\ req' = [req EXCEPT ![w] =
                                [upd EXCEPT !.response = 204,
                                            !.notified = IF notify THEN 1 ELSE 0]]
                  /\ sent' = IF notify
                             THEN Append(sent, [receive_id |-> r.task.child_chat_id,
                                                content |-> message])
                             ELSE sent
    /\ UNCHANGED <<github_secret, delivered>>

\* main.py:143-155: the status update returns, the message is built and,
\* for a task with a chat, send_message is called.  The call passes
\* WebhookSendArgs positional arguments; when they do not bind, TypeError
\* propagates out of the handler and the request ends as a server error.
Update(w) ==
    /\ req[w].pc = "update"
    /\ \E ok \in BOOLEAN :
         LET r == req[w]
             message == CiMessage(IF r.status = CI_GREEN THEN "success" ELSE "failure",
                                  r.commit_info)
             notify == r.task.child_chat_id # ""
             binds == SendMessageBinds(WebhookSendArgs)
             upd == [r EXCEPT !.updated = IF ok THEN "ok" ELSE "failed",
                              !.message = message, !.pc = "done"]
         IN  /\ table' = UpdateTaskStatus(table, r.task.record_id, r.new_status, ok)
             /\ IF notify /\ ~binds
                THEN /\ req' = [req EXCEPT ![w] = [upd EXCEPT !.response = 500]]
                     /\ sent' = sent
                ELSE IF notify
                THEN /\ req' = [req EXCEPT ![w] = [upd EXCEPT !.response = 204, !.notified = 1]]
                     /\ sent' = Append(sent, [receive_id |-> r.task.child_chat_id,
                                              content |-> message])
                ELSE /\ req' = [req EXCEPT ![w] = [upd EXCEPT !.response = 204]]
                     /\ sent' = sent
    /\ UNCHANGED <<github_secret, delivered>>


\* settings.feishu.encrypt_key: Optional[str] (config.py:22)
NoKey == [present |-> FALSE, text |-> EmptyStr]
Key(text) == [present |-> TRUE, text |-> text]

\* Values of the variables a specification does not use.
IdleVerify == [phase |-> "unused", secret |-> None, body |-> 0, signature |-> <<>>,
               result |-> FALSE]
IdleNormalize == [payload |-> EmptyPayload, called |-> FALSE, status |-> None,
                  called_top |-> FALSE, top |-> None]
IdleExtract ==
    ecase = [payload |-> EmptyPayload, called |-> FALSE, info |-> EmptyInfo,
             called_primary |-> FALSE, primary |-> EmptyInfo]
NoSweepResult == [ran |-> FALSE, raised |-> FALSE, at |-> 0, logged |-> FALSE,
                  propagated |-> FALSE, sent |-> <<>>]
IdleSweep ==
    /\ sweep_tasks = <<>>
    /\ reminders = <<>>
    /\ sweep_result = NoSweepResult
    /\ sweep_runs = 0
IdlePager ==
    /\ pager = [pc |-> "unused", all_records |-> <<>>, page_token |-> None]
    /\ pages = <<>>
    /\ asked = <<>>
IdleFeishu ==
    /\ encrypt_key = NoKey
    /\ verify_sign = "original"
    /\ freq = [path |-> "none"]
    /\ dispatched = <<>>
    /\ fcount = 0

Init ==
    /\ github_secret \in {None, ProviderSecret}
    /\ table \in InitTables
    /\ req = [w \in Workers |-> IdleRequest]
    /\ sent = <<>>
    /\ delivered = 0
    /\ vcase = IdleVerify
    /\ ncase = IdleNormalize
    /\ IdleExtract
    /\ IdleSweep
    /\ IdlePager
    /\ IdleFeishu

CiDeliver == \E w \in Workers : Deliver(w) /\ UNCHANGED <<verifyVars, feishuVars, normVars, extractVars, sweepVars, pageVars>>
CiLookup == \E w \in Workers : Lookup(w) /\ UNCHANGED <<verifyVars, feishuVars, normVars, extractVars, sweepVars, pageVars>>
CiUpdate == \E w \in Workers : Update(w) /\ UNCHANGED <<verifyVars, feishuVars, normVars, extractVars, sweepVars, pageVars>>

Next == CiDeliver \/ CiLookup \/ CiUpdate

Spec == Init /\ [][Next]_vars


(***************************************************************************)
(* SpecVerify: CIService.verify_github_signature applied once to a         *)
(* secret, a body and a header value drawn from bounded sets.              *)
(***************************************************************************)
VerifySecrets == {None, "", ProviderSecret, "other_secret"}
VerifyBodies == {1, 2}
HeaderTokens ==
    {EqTok, Word("sha1"), Word("sha256"), Word("SHA256"), Word("md5"), Word("invalid")}
    \cup {Hmac(a, k, 1) : a \in {"sha1", "sha256"}, k \in {ProviderSecret, "other_secret"}}
    \cup {Hmac("sha256", ProviderSecret, 2)}
SeqsUpTo(S, n) == UNION {[1..m -> S] : m \in 0..n}
Headers == SeqsUpTo(HeaderTokens, MaxHeaderLen)

IdleCi ==
    /\ github_secret = None
    /\ table = <<>>
    /\ req = [w \in Workers |-> IdleRequest]
    /\ sent = <<>>
    /\ delivered = 0

InitVerify ==
    /\ vcase \in [phase : {"input"}, secret : VerifySecrets, body : VerifyBodies,
                  signature : Headers, result : {FALSE}]
    /\ ncase = IdleNormalize
    /\ IdleExtract
    /\ IdleSweep
    /\ IdlePager
    /\ IdleCi
    /\ IdleFeishu

\* ci_service.verify_github_signature(body, x_hub_signature_256) (main.py:117)
VerifyCall ==
    /\ vcase.phase = "input"
    /\ vcase' = [vcase EXCEPT
                   !.phase = "output",
                   !.result = VerifyGithubSignature(vcase.secret, vcase.body, vcase.signature)]
    /\ UNCHANGED <<ciVars, feishuVars, normVars, extractVars, sweepVars, pageVars>>

NextVerify == VerifyCall

SpecVerify == InitVerify /\ [][NextVerify]_vars


(***************************************************************************)
(* SpecFeishu: the chat-platform endpoint, feishu_event (main.py:44-98).   *)
(* Header values and the body are strings (sequences of characters); a     *)
(* header that the request does not carry is NoHeader.  Marker stands for  *)
(* the byte string "type":"url_verification" inside a body.                *)
(***************************************************************************)
Marker == "\"type\":\"url_verification\""
NoHeader == [present |-> FALSE, text |-> EmptyStr, digest |-> FALSE]
Header(text) == [present |-> TRUE, text |-> text, digest |-> FALSE]
\* hashlib.sha1(data).hexdigest() (main.py:70): determined by the data.
Sha1Hex(data) == [present |-> TRUE, text |-> data, digest |-> TRUE]

\* b'"type":"url_verification"' in body (main.py:51)
IsChallenge(body) == \E i \in 1..Len(body) : body[i] = Marker

\* not all([timestamp, nonce, received_signature]) (main.py:64), negated:
\* every header is present and not the empty string.
Truthy(h) == h.present /\ (h.digest \/ h.text # EmptyStr)
HeadersComplete_IgnoreNonce(timestamp, nonce, received_signature) ==
    Truthy(timestamp) /\ Truthy(received_signature)
HeadersComplete(timestamp, nonce, received_signature) ==
    Truthy(timestamp) /\ Truthy(nonce) /\ Truthy(received_signature)

\* main.py:67-70: SHA1 over timestamp + nonce + (encrypt_key or "") + body.
SignatureString(timestamp, nonce, key, body) ==
    timestamp.text \o nonce.text \o (IF key.present THEN key.text ELSE EmptyStr) \o body
CalculatedSignature_NoBody(timestamp, nonce, key, body) ==
    Sha1Hex(SignatureString(timestamp, nonce, key, EmptyStr))
CalculatedSignature(timestamp, nonce, key, body) ==
    Sha1Hex(SignatureString(timestamp, nonce, key, body))

FeishuKeys == {NoKey, Key(<<"k">>)}
Timestamps == {NoHeader, Header(<<"1">>), Header(<<"1", "2">>)}
Nonces == {NoHeader, Header(EmptyStr), Header(<<"3">>), Header(<<"2", "3">>)}
FeishuBodies == {<<"x">>, <<Marker>>, <<"x", Marker>>}
\* The signature headers a sender may attach to (timestamp, nonce, body).
FeishuSignatures(timestamp, nonce, body) ==
    {NoHeader, Header(EmptyStr), Header(<<"0">>)}
    \cup {Sha1Hex(SignatureString(timestamp, nonce, k, b)) :
            k \in {encrypt_key, Key(<<"z">>)}, b \in {body, EmptyStr}}

\* Outcomes of event_handler.do (the SDK): a response, or an exception.
SdkOutcomes == {"ok", "raise"}

NoFeishuRequest ==
    [timestamp |-> NoHeader, nonce |-> NoHeader, signature |-> NoHeader,
     body |-> <<>>, path |-> "none", called_do |-> FALSE, response |-> 0]

\* A handler that restores the verification routine only when the dispatch
\* returns.
FeishuEvent_NoFinally(timestamp, nonce, received_signature, body, sdk) ==
    LET base == [NoFeishuRequest EXCEPT !.timestamp = timestamp, !.nonce = nonce,
                                        !.signature = received_signature, !.body = body]
        sdk_status == IF sdk = "ok" THEN 200 ELSE 500
        call(path, patched) ==
            [path |-> path,
             verify_sign |-> IF patched THEN "noop" ELSE verify_sign,
             raised |-> sdk = "raise"]
    IN  IF IsChallenge(body)
        THEN /\ freq' = [base EXCEPT !.path = "challenge", !.called_do = TRUE,
                                     !.response = sdk_status]
             /\ dispatched' = Append(dispatched, call("challenge", FALSE))
             /\ verify_sign' = verify_sign
        ELSE IF ~HeadersComplete(timestamp, nonce, received_signature)
        THEN /\ freq' = [base EXCEPT !.path = "missing_headers", !.response = 403]
             /\ UNCHANGED <<dispatched, verify_sign>>
        ELSE IF received_signature # CalculatedSignature(timestamp, nonce, encrypt_key, body)
        THEN /\ freq' = [base EXCEPT !.path = "bad_signature", !.response = 403]
             /\ UNCHANGED <<dispatched, verify_sign>>
        ELSE /\ freq' = [base EXCEPT !.path = "event", !.called_do = TRUE,
                                     !.response = sdk_status]
             /\ dispatched' = Append(dispatched, call("event", TRUE))
             /\ verify_sign' = IF sdk = "raise" THEN "noop" ELSE verify_sign

\* One request, start to finish: the handler has no await after reading
\* the body, and event_handler.do is a synchronous call.
FeishuEvent(timestamp, nonce, received_signature, body, sdk) ==
    LET base == [NoFeishuRequest EXCEPT !.timestamp = timestamp, !.nonce = nonce,
                                        !.signature = received_signature, !.body = body]
        original_verify == verify_sign
        sdk_status == IF sdk = "ok" THEN 200 ELSE 500
        call(path, patched) ==
            [path |-> path,
             verify_sign |-> IF patched THEN "noop" ELSE verify_sign,
             raised |-> sdk = "raise"]
    IN  IF IsChallenge(body)
        THEN /\ freq' = [base EXCEPT !.path = "challenge", !.called_do = TRUE,
                                     !.response = sdk_status]
             /\ dispatched' = Append(dispatched, call("challenge", FALSE))
             /\ verify_sign' = verify_sign
        ELSE IF ~HeadersComplete(timestamp, nonce, received_signature)
        THEN /\ freq' = [base EXCEPT !.path = "missing_headers", !.response = 403]
             /\ UNCHANGED <<dispatched, verify_sign>>
        ELSE IF received_signature # CalculatedSignature(timestamp, nonce, encrypt_key, body)
        THEN /\ freq' = [base EXCEPT !.path = "bad_signature", !.response = 403]
             /\ UNCHANGED <<dispatched, verify_sign>>
        ELSE /\ freq' = [base EXCEPT !.path = "event", !.called_do = TRUE,
                                     !.response = sdk_status]
             /\ dispatched' = Append(dispatched, call("event", TRUE))
             /\ verify_sign' = original_verify      \* the finally block

InitFeishu ==
    /\ encrypt_key \in FeishuKeys
    /\ verify_sign = "original"
    /\ freq = NoFeishuRequest
    /\ dispatched = <<>>
    /\ fcount = 0
    /\ vcase = IdleVerify
    /\ ncase = IdleNormalize
    /\ IdleExtract
    /\ IdleSweep
    /\ IdlePager
    /\ IdleCi

FeishuRequest ==
    /\ fcount < MaxFeishuRequests
    /\ \E timestamp \in Timestamps, nonce \in Nonces, body \in FeishuBodies, sdk \in SdkOutcomes :
         \E received_signature \in FeishuSignatures(timestamp, nonce, body) :
            FeishuEvent(timestamp, nonce, received_signature, body, sdk)
    /\ fcount' = fcount + 1
    /\ UNCHANGED <<encrypt_key, ciVars, verifyVars, normVars, extractVars, sweepVars, pageVars>>

NextFeishu == FeishuRequest

SpecFeishu == InitFeishu /\ [][NextFeishu]_vars


(***************************************************************************)
(* SpecNormalize: CIService.parse_github_status applied to one payload     *)
(* drawn from a bounded set, and to the same payload cut down to the       *)
(* shape that is first in the order workflow_run, check_suite, status.     *)
(***************************************************************************)
\* Values found under "conclusion" and "state": the strings of the two
\* tables, one string of neither, JSON null, and no such key.
UpstreamValues ==
    {Absent, Null, "success", "failure", "cancelled", "timed_out", "error",
     "waiting", "queued", "in_progress", "pending", "neutral"}
\* Values of payload["workflow_run"] and payload["check_suite"].
Shapes == {NoObj, BadObj} \cup {Obj(c, ShaA) : c \in UpstreamValues}
\* Values of payload.get("action").
ActionValues == {Absent, "status", "completed"}

NormalizePayloads ==
    {NonObjectBody}
    \cup {[EmptyPayload EXCEPT !.workflow_run = wr, !.check_suite = cs,
                               !.action = a, !.state = st] :
            wr \in Shapes, cs \in Shapes, a \in ActionValues, st \in UpstreamValues}

\* The payload without the keys of the shapes that come after its first one.
TopShapeOnly(payload) ==
    IF payload.json # "dict" THEN payload
    ELSE IF payload.workflow_run.kind # Absent
    THEN [payload EXCEPT !.check_suite = NoObj, !.action = Absent, !.state = Absent]
    ELSE IF payload.check_suite.kind # Absent
    THEN [payload EXCEPT !.action = Absent, !.state = Absent]
    ELSE payload

InitNormalize ==
    /\ ncase \in [payload : NormalizePayloads, called : {FALSE}, status : {None},
                  called_top : {FALSE}, top : {None}]
    /\ vcase = IdleVerify
    /\ IdleExtract
    /\ IdleSweep
    /\ IdlePager
    /\ IdleCi
    /\ IdleFeishu

\* status = ci_service.parse_github_status(payload) (main.py:127)
NormalizeCall ==
    /\ ~ncase.called
    /\ ncase' = [ncase EXCEPT !.called = TRUE,
                              !.status = ParseGithubStatus(ncase.payload)]
    /\ UNCHANGED <<ciVars, verifyVars, feishuVars, extractVars, sweepVars, pageVars>>

\* The same call on the payload that carries the first shape only.
NormalizeTopCall ==
    /\ ~ncase.called_top
    /\ ncase' = [ncase EXCEPT !.called_top = TRUE,
                              !.top = ParseGithubStatus(TopShapeOnly(ncase.payload))]
    /\ UNCHANGED <<ciVars, verifyVars, feishuVars, extractVars, sweepVars, pageVars>>

NextNormalize == NormalizeCall \/ NormalizeTopCall

SpecNormalize == InitNormalize /\ [][NextNormalize]_vars


(***************************************************************************)
(* SpecExtract: CIService.extract_commit_info applied to one payload       *)
(* drawn from a bounded set, and to the same payload without its commits   *)
(* array, which leaves what the primary shape supplies.                    *)
(***************************************************************************)
\* Values of payload["workflow_run"] and payload["check_suite"].
ExtractRuns ==
    {NoObj, BadObj}
    \cup {[Obj("success", sha) EXCEPT !.html_url = u] :
            sha \in {EmptyStr, ShaA}, u \in {"", "https://ci/run"}}
ExtractSuites ==
    {NoObj, Obj("success", ShaB), [Obj("success", EmptyStr) EXCEPT !.html_url = ""]}
\* Values of payload["commit"] of a status event.
ExtractCommits ==
    {NoCommit, [kind |-> "dict", message |-> "fix", html_url |-> "https://c/s"],
     [NoCommit EXCEPT !.kind = "other"]}
\* The keys of a status event: "status", "sha", "commit".
ExtractStatusParts ==
    {[status_key |-> FALSE, sha |-> EmptyStr, commit |-> NoCommit]}
    \cup [status_key : {TRUE}, sha : {EmptyStr, ShaA2}, commit : ExtractCommits]
ExtractRepos == {NoRepo, Repo("test/repo"), [NoRepo EXCEPT !.kind = "other"]}
\* Values of payload["commits"]: missing or empty, one entry, one entry
\* that is no object.
ExtractCommitLists ==
    {<<>>, <<[kind |-> "other", id |-> EmptyStr, message |-> "", url |-> ""]>>}
    \cup {<<CommitEntry(id, m, u)>> :
            id \in {EmptyStr, ShaB}, m \in {"", "msg"}, u \in {"", "https://c/1"}}

ExtractPayloads ==
    {NonObjectBody}
    \cup {[EmptyPayload EXCEPT !.workflow_run = wr, !.check_suite = cs,
                               !.status_key = st.status_key, !.sha = st.sha,
                               !.commit = st.commit, !.repository = rp,
                               !.commits = cl] :
            wr \in ExtractRuns, cs \in ExtractSuites, st \in ExtractStatusParts,
            rp \in ExtractRepos, cl \in ExtractCommitLists}

\* The payload without its "commits" key.
WithoutCommits(payload) == [payload EXCEPT !.commits = <<>>]

InitExtract ==
    /\ ecase \in [payload : ExtractPayloads, called : {FALSE}, info : {EmptyInfo},
                  called_primary : {FALSE}, primary : {EmptyInfo}]
    /\ vcase = IdleVerify
    /\ ncase = IdleNormalize
    /\ IdleCi
    /\ IdleFeishu
    /\ IdleSweep
    /\ IdlePager

\* commit_info = ci_service.extract_commit_info(payload) (main.py:128)
ExtractCall ==
    /\ ~ecase.called
    /\ ecase' = [ecase EXCEPT !.called = TRUE,
                              !.info = ExtractCommitInfo(ecase.payload)]
    /\ UNCHANGED <<ciVars, verifyVars, feishuVars, normVars, sweepVars, pageVars>>

\* The same call on the payload without its commits array.
ExtractPrimaryCall ==
    /\ ~ecase.called_primary
    /\ ecase' = [ecase EXCEPT !.called_primary = TRUE,
                              !.primary = ExtractCommitInfo(WithoutCommits(ecase.payload))]
    /\ UNCHANGED <<ciVars, verifyVars, feishuVars, normVars, sweepVars, pageVars>>

NextExtract == ExtractCall \/ ExtractPrimaryCall

SpecExtract == InitExtract /\ [][NextExtract]_vars


(***************************************************************************)
(* SpecSweep: the hourly job check_inactive_tasks (scheduler.py:12-51),    *)
(* started by lifespan (main.py:27-40) with the module's feishu_client and *)
(* bitable_client.  The job's first statement calls                        *)
(* bitable_client.get_all_tasks(); looking up a method the class does not  *)
(* define raises AttributeError before anything is awaited, so a run is    *)
(* one step.                                                               *)
(***************************************************************************)
\* The methods class BitableClient defines (bitable.py:27-144).
BitableMethods ==
    {"_get_all_records", "create_record", "update_record", "get_all_persons",
     "create_task", "update_task", "update_task_status", "get_task_by_chat_id",
     "get_task_by_commit"}

\* timedelta(hours=48) (scheduler.py:33)
InactivityHours == 48

\* task.get("last_modified_time"): no value (or 0), a number, here as the
\* hours between that time and the run, or a value that is no number.
NoStamp == [kind |-> "missing", hours |-> 0]
Stamp(h) == [kind |-> "number", hours |-> h]
BadStamp == [kind |-> "text", hours |-> 0]

SweepTask(id, status, stamp, chat, assignee) ==
    [record_id |-> id, status |-> status, last_modified_time |-> stamp,
     child_chat_id |-> chat, assignee_id |-> assignee]

\* The keyword arguments of the call at scheduler.py:44-48; the text names
\* the task and mentions the assignee.
Reminder(task) ==
    [receive_id_type |-> "chat_id", receive_id |-> task.child_chat_id,
     record_id |-> task.record_id, assignee_id |-> task.assignee_id]

\* scheduler.py:20-48 from task i on.  out: the reminders handed to
\* send_message so far.  The result tells whether a statement raised, at
\* which task, and the reminders handed over until then.
RECURSIVE SweepLoop(_, _, _)
SweepLoop(tasks, i, out) ==
    IF i > Len(tasks) THEN [raised |-> FALSE, at |-> 0, sent |-> out]
    ELSE LET task == tasks[i]
         IN  IF task.status \notin {ASSIGNED, IN_PROGRESS}
             THEN SweepLoop(tasks, i + 1, out)
             ELSE IF task.last_modified_time.kind = "missing"
             THEN SweepLoop(tasks, i + 1, out)
             ELSE IF task.last_modified_time.kind # "number"    \* the division raises
             THEN [raised |-> TRUE, at |-> i, sent |-> out]
             ELSE IF task.last_modified_time.hours > InactivityHours
             THEN IF task.child_chat_id = "" \/ task.assignee_id = ""
                  THEN SweepLoop(tasks, i + 1, out)
                  ELSE SweepLoop(tasks, i + 1, Append(out, Reminder(task)))
             ELSE SweepLoop(tasks, i + 1, out)

\* A job without the try block: an exception reaches the scheduler.
CheckInactiveTasks_NoExcept(tasks) ==
    IF "get_all_tasks" \notin BitableMethods
    THEN [ran |-> TRUE, raised |-> TRUE, at |-> 0, logged |-> FALSE,
          propagated |-> TRUE, sent |-> <<>>]
    ELSE LET r == SweepLoop(tasks, 1, <<>>)
         IN  [ran |-> TRUE, raised |-> r.raised, at |-> r.at, logged |-> FALSE,
              propagated |-> r.raised, sent |-> r.sent]

\* check_inactive_tasks (scheduler.py:12-51).  at = 0: the fetch raised.
CheckInactiveTasks(tasks) ==
    IF "get_all_tasks" \notin BitableMethods
    THEN [ran |-> TRUE, raised |-> TRUE, at |-> 0, logged |-> TRUE,
          propagated |-> FALSE, sent |-> <<>>]
    ELSE LET r == SweepLoop(tasks, 1, <<>>)
         IN  [ran |-> TRUE, raised |-> r.raised, at |-> r.at, logged |-> r.raised,
              propagated |-> FALSE, sent |-> r.sent]

\* The task tables the backend may hold: two tasks of every kind.
SweepStamps == {NoStamp, Stamp(InactivityHours), Stamp(InactivityHours + 1), BadStamp}
SweepTables ==
    { << SweepTask("rec_1", s1, m1, c1, a1), SweepTask("rec_2", s2, m2, c2, a2) >> :
      s1 \in {ASSIGNED, IN_PROGRESS, DONE}, s2 \in {ASSIGNED, IN_PROGRESS, DONE},
      m1 \in SweepStamps, m2 \in SweepStamps,
      c1 \in {"", "oc_456"}, c2 \in {"", "oc_789"},
      a1 \in {"", "ou_1"}, a2 \in {"", "ou_2"} }

InitSweep ==
    /\ sweep_tasks \in SweepTables
    /\ reminders = <<>>
    /\ sweep_result = NoSweepResult
    /\ sweep_runs = 0
    /\ vcase = IdleVerify
    /\ ncase = IdleNormalize
    /\ IdleExtract
    /\ IdleCi
    /\ IdleFeishu
    /\ IdlePager

\* One run of the job, started by the scheduler every hour (main.py:30-35).
RunSweep ==
    /\ sweep_runs < MaxSweeps
    /\ sweep_result' = CheckInactiveTasks(sweep_tasks)
    /\ reminders' = reminders \o CheckInactiveTasks(sweep_tasks).sent
    /\ sweep_runs' = sweep_runs + 1
    /\ UNCHANGED <<sweep_tasks, ciVars, verifyVars, feishuVars, normVars,
                   extractVars, pageVars>>

NextSweep == RunSweep

SpecSweep == InitSweep /\ [][NextSweep]_vars


(***************************************************************************)
(* SpecPagesFair: the page loop of BitableClient._get_all_records          *)
(* (bitable.py:36-70).  One iteration awaits one list call; the backend    *)
(* answers each call as it likes, except that by page MaxPages it reports  *)
(* no more data or fails.                                                  *)
(***************************************************************************)
\* An item of a page: item.fields is a dictionary, or it is None and the
\* assignment at bitable.py:60 raises.
Item(id) == [record_id |-> id, fields |-> "dict"]
BadItem == [record_id |-> "rx", fields |-> "none"]

PageItems ==
    {<<>>, <<Item("r1")>>, <<Item("r1"), Item("r2")>>, <<Item("r1"), BadItem>>, <<BadItem>>}
\* resp.data.page_token; "" when the backend sends none.
PageTokens == {"", "t1", "t2"}

\* What a list call yields: an exception, a response with success() false,
\* or a page.
RaisedResponse == [kind |-> "raise", items |-> <<>>, has_more |-> FALSE, page_token |-> ""]
FailedResponse == [kind |-> "unsuccessful", items |-> <<>>, has_more |-> FALSE,
                   page_token |-> ""]
PageResponses ==
    {RaisedResponse, FailedResponse}
    \cup [kind : {"ok"}, items : PageItems, has_more : {FALSE}, page_token : {""}]
    \cup [kind : {"ok"}, items : PageItems, has_more : {TRUE}, page_token : PageTokens]

\* Position of the first item whose fields are None, 0 when there is none.
FirstBad(items) ==
    IF \E k \in 1..Len(items) : items[k].fields # "dict"
    THEN CHOOSE k \in 1..Len(items) :
            /\ items[k].fields # "dict"
            /\ \A j \in 1..(k - 1) : items[j].fields = "dict"
    ELSE 0

\* The records appended by the for loop (bitable.py:58-61) before it ends
\* or raises.
Appended(items) ==
    LET n == IF FirstBad(items) = 0 THEN Len(items) ELSE FirstBad(items) - 1
    IN  [k \in 1..n |-> items[k].record_id]

\* if page_token: builder.page_token(page_token) (bitable.py:46-47):
\* the token the request carries, None when it carries none.
RequestToken(page_token) ==
    IF page_token = None \/ page_token = "" THEN None ELSE page_token

\* A loop that gives up what it has collected when a call fails.
AfterPage_DropOnFailure(locals, resp) ==
    IF resp.kind # "ok" \/ FirstBad(resp.items) # 0
    THEN [locals EXCEPT !.pc = "done", !.all_records = <<>>]
    ELSE IF resp.has_more
    THEN [locals EXCEPT !.all_records = @ \o Appended(resp.items),
                        !.page_token = resp.page_token]
    ELSE [locals EXCEPT !.pc = "done", !.all_records = @ \o Appended(resp.items)]

\* bitable.py:51-69: the locals after the response of one list call.
AfterPage(locals, resp) ==
    IF resp.kind = "raise" THEN [locals EXCEPT !.pc = "done"]
    ELSE IF resp.kind = "unsuccessful" THEN [locals EXCEPT !.pc = "done"]
    ELSE IF FirstBad(resp.items) # 0
    THEN [locals EXCEPT !.pc = "done", !.all_records = @ \o Appended(resp.items)]
    ELSE IF resp.has_more
    THEN [locals EXCEPT !.all_records = @ \o Appended(resp.items),
                        !.page_token = resp.page_token]
    ELSE [locals EXCEPT !.pc = "done", !.all_records = @ \o Appended(resp.items)]

\* The loop goes on after this response.
Continues(resp) == resp.kind = "ok" /\ FirstBad(resp.items) = 0 /\ resp.has_more

\* The responses the backend may give to the n-th call.
ResponsesAt(n) ==
    IF n >= MaxPages THEN {resp \in PageResponses : ~Continues(resp)}
    ELSE PageResponses

InitPages ==
    /\ pager = [pc |-> "fetch", all_records |-> <<>>, page_token |-> None]
    /\ pages = <<>>
    /\ asked = <<>>
    /\ vcase = IdleVerify
    /\ ncase = IdleNormalize
    /\ IdleExtract
    /\ IdleSweep
    /\ IdleCi
    /\ IdleFeishu

\* One iteration of the while loop (bitable.py:40-69).
FetchPage ==
    /\ pager.pc = "fetch"
    /\ \E resp \in ResponsesAt(Len(pages) + 1) :
         /\ asked' = Append(asked, RequestToken(pager.page_token))
         /\ pages' = Append(pages, resp)
         /\ pager' = AfterPage(pager, resp)
    /\ UNCHANGED <<ciVars, verifyVars, feishuVars, normVars, extractVars, sweepVars>>

NextPages == FetchPage

\* The awaited list call completes and the event loop resumes the
\* coroutine: an iteration that can run does run.
SpecPagesFair == InitPages /\ [][NextPages]_vars /\ WF_vars(FetchPage)


(***************************************************************************)
(* Properties of the CI webhook endpoint (Spec).                           *)
(***************************************************************************)
Active == {w \in Workers : req[w].pc # "idle"}

\* The request passes signature verification: no secret is configured, or
\* the header is "sha256=" followed by the HMAC-SHA256 of the body.
Verified(r) ==
    \/ github_secret = None
    \/ r.signature = <<Word("sha256"), EqTok, Hmac("sha256", github_secret, r.body)>>

HasTask(sha) == \E i \in 1..Len(table) : table[i].github_commit_sha = sha
\* The first task carrying the SHA has a linked chat.
FirstTaskHasChat(sha) ==
    \E i \in 1..Len(table) :
        /\ table[i].github_commit_sha = sha
        /\ table[i].child_chat_id # ""
        /\ \A j \in 1..(i - 1) : table[j].github_commit_sha # sha

\* s is the first seven characters of sha (all of it when shorter).
IsShortOf(s, sha) ==
    /\ Len(s) = (IF Len(sha) < 7 THEN Len(sha) ELSE 7)
    /\ \A i \in 1..Len(s) : s[i] = sha[i]

\* C1 (as claimed): a verified check_suite request with conclusion
\* "success" and a SHA whose task has a linked chat, all backend calls
\* succeeding, ends with 204, the status write CI Pass committed and exactly
\* one chat message sent, carrying the short SHA.
C1_Claim ==
    \A w \in Active :
        LET r == req[w]
            p == Bodies[r.body]
        IN  ( /\ r.pc = "done"
              /\ Verified(r)
              /\ r.event = "check_suite"
              /\ p.json = "dict"
              /\ p.workflow_run.kind = Absent
              /\ p.check_suite.kind = "dict"
              /\ p.check_suite.conclusion = "success"
              /\ FirstTaskHasChat(p.check_suite.head_sha)
              /\ r.lookup = "ok"
              /\ r.updated = "ok" )
            => /\ r.response = 204
               /\ r.new_status = CI_PASS
               /\ r.notified = 1
               /\ IsShortOf(r.message.short, p.check_suite.head_sha)

\* A verified check_suite request whose extracted SHA no task carries.
UnknownSha(r) ==
    /\ r.pc = "done"
    /\ Verified(r)
    /\ r.event = "check_suite"
    /\ Bodies[r.body].json # "invalid"
    /\ r.commit_info.sha # EmptyStr
    /\ ~HasTask(r.commit_info.sha)

\* C2 (as claimed): a verified check_suite request whose SHA matches no
\* task is answered 400, issues no status update and sends no message.
C2_Claim ==
    \A w \in Active :
        UnknownSha(req[w]) =>
            /\ req[w].response = 400
            /\ req[w].updated = "none"
            /\ req[w].notified = 0

\* C2 (amended): a verified check_suite request whose SHA matches no task
\* is answered 200, issues no status update and sends no message.
C2_Amended ==
    \A w \in Active :
        UnknownSha(req[w]) =>
            /\ req[w].response = 200
            /\ req[w].task = NoTask
            /\ req[w].updated = "none"
            /\ req[w].notified = 0

C2_Witness ==
    \E w \in Active :
        /\ UnknownSha(req[w])
        /\ req[w].lookup = "ok"
        /\ req[w].response = 200

\* C3: with a secret configured, a request whose header is not the HMAC of
\* its body is answered 403 whatever its event type, and nothing else
\* happens for it: no normalisation, no lookup, no update, no message.
C3_BadSignatureRejected ==
    \A w \in Active :
        (github_secret # None /\ ~Verified(req[w])) =>
            /\ req[w].pc = "done"
            /\ req[w].response = 403
            /\ ~req[w].parsed
            /\ req[w].lookup = "none"
            /\ req[w].task = NoTask
            /\ req[w].updated = "none"
            /\ req[w].notified = 0

C3_Witness ==
    /\ github_secret # None
    /\ \E w \in Active :
        /\ req[w].event = "check_suite"
        /\ req[w].body = 1
        /\ ~Verified(req[w])
        /\ req[w].response = 403
    /\ \E w \in Active :
        /\ req[w].event = "ping"
        /\ ~Verified(req[w])
        /\ req[w].response = 403

C9_ApplyResult ==
    [][ \A w \in Workers :
          (req[w].pc = "update" /\ req'[w].pc = "done") =>
            LET r == req[w]
                expected == IF r.status = CI_GREEN THEN CI_PASS ELSE CI_FAIL
            IN  /\ r.status \in {CI_GREEN, CI_RED}
                /\ r.task # NoTask
                /\ req'[w].updated = "ok" =>
                      \A i \in 1..Len(table') :
                          table'[i].record_id = r.task.record_id =>
                              table'[i].status = expected
                /\ \A i \in 1..Len(table') :
                      table'[i].record_id # r.task.record_id => table'[i] = table[i]
                /\ req'[w].message.kind = (IF r.status = CI_GREEN THEN "success" ELSE "failure")
                /\ req'[w].message.repo = r.commit_info.repo
                /\ IsShortOf(req'[w].message.short, r.commit_info.sha)
      ]_vars

\* Both verdicts applied: rec_1 set to CI Pass by a Green result for ShaA
\* and rec_4 set to CI Fail by a Red result for the two-character SHA.
C9_Witness ==
    \E w1, w2 \in Active :
        /\ req[w1].pc = "done" /\ req[w1].status = CI_GREEN /\ req[w1].updated = "ok"
        /\ req[w1].task.record_id = "rec_1"
        /\ table[1].status = CI_PASS
        /\ req[w1].message = [kind |-> "success", repo |-> "test/repo",
                             short |-> <<"a", "1", "b", "2", "c", "3", "d">>]
        /\ req[w2].pc = "done" /\ req[w2].status = CI_RED /\ req[w2].updated = "ok"
        /\ req[w2].task.record_id = "rec_4"
        /\ table[4].status = CI_FAIL
        /\ req[w2].message.short = ShaShort

\* C10: a request whose normalised state is Pending or Unknown never
\* issues a status update and never sends a message, and once its task is
\* resolved it is answered 200.
C10_PendingUnknownIgnored ==
    \A w \in Active :
        (req[w].parsed /\ req[w].status \in {CI_PENDING, CI_UNKNOWN}) =>
            /\ req[w].pc # "update"
            /\ req[w].updated = "none"
            /\ req[w].new_status = None
            /\ req[w].notified = 0
            /\ (req[w].pc = "done" /\ req[w].task # NoTask) => req[w].response = 200

C10_Witness ==
    \E w1, w2 \in Active :
        /\ req[w1].pc = "done" /\ req[w1].status = CI_PENDING
        /\ req[w1].task.record_id = "rec_1" /\ req[w1].response = 200
        /\ req[w2].pc = "done" /\ req[w2].status = CI_UNKNOWN
        /\ req[w2].task.record_id = "rec_1" /\ req[w2].response = 200

\* A Green or Red result has been applied to a resolved task.
Applied(r) ==
    /\ r.pc = "done"
    /\ r.status \in {CI_GREEN, CI_RED}
    /\ r.task # NoTask

\* C11 (as claimed): once a Green or Red result has been applied, a chat
\* message has been sent to the task's linked chat if and only if the task
\* has one; for a task without a linked chat nothing is sent, no error is
\* raised and the status write has been issued.
C11_Claim ==
    \A w \in Active :
        LET r == req[w]
        IN  Applied(r) =>
              /\ (r.notified = 1) <=> (r.task.child_chat_id # "")
              /\ r.task.child_chat_id # "" =>
                    \E i \in 1..Len(sent) : sent[i].receive_id = r.task.child_chat_id
              /\ r.task.child_chat_id = "" =>
                    /\ r.response = 204
                    /\ r.updated # "none"

\* C12 (as claimed): a step that moves a task's status to CI Pass or CI
\* Fail starts from the status Assigned or InProgress.
C12_Claim ==
    [][ \A i \in 1..Len(table) :
          ( /\ table'[i].status \in {CI_PASS, CI_FAIL}
            /\ table'[i].status # table[i].status )
          => table[i].status \in {ASSIGNED, IN_PROGRESS}
      ]_vars

\* C13 (as claimed): no step changes the status of a task that is Archived.
C13_Claim ==
    [][ \A i \in 1..Len(table) :
          table[i].status = ARCHIVED => table'[i].status = ARCHIVED
      ]_vars

\* The request was a verified check_suite delivery of a Green result whose
\* lookup and status write both succeeded.
GreenApplied(r) ==
    /\ r.pc = "done"
    /\ Verified(r)
    /\ r.event = "check_suite"
    /\ r.status = CI_GREEN
    /\ r.lookup = "ok"
    /\ r.task # NoTask
    /\ r.updated = "ok"

\* C14 (as claimed): the same Green delivery for the same task made twice in
\* sequence (the second lookup already sees the first one's CI Pass) leaves
\* the task in CI Pass, and neither delivery raises.
C14_Claim ==
    \A w1, w2 \in Active :
        ( /\ w1 # w2
          /\ GreenApplied(req[w1])
          /\ GreenApplied(req[w2])
          /\ req[w1].body = req[w2].body
          /\ req[w1].task.record_id = req[w2].task.record_id
          /\ req[w1].task.status # CI_PASS
          /\ req[w2].task.status = CI_PASS )
        => /\ req[w1].response # 500
           /\ req[w2].response # 500
           /\ \A i \in 1..Len(table) :
                 table[i].record_id = req[w2].task.record_id => table[i].status = CI_PASS

\* C15 (as claimed): a finished request was answered 204 exactly when its
\* status write changed the table, and a request answered 200 issued no
\* status write.
C15_Claim ==
    \A w \in Active :
        req[w].pc = "done" =>
            /\ (req[w].response = 204) <=> (req[w].updated = "ok")
            /\ req[w].response = 200 => req[w].updated = "none"

\* Neither the primary shape nor commits[0] of the body carries a SHA.
NoShaSupplied(p) ==
    \/ p.json = "other"
    \/ /\ p.json = "dict"
       /\ p.workflow_run.head_sha = EmptyStr
       /\ p.check_suite.head_sha = EmptyStr
       /\ p.sha = EmptyStr
       /\ (p.commits = <<>> \/ p.commits[1].id = EmptyStr)

\* C16: a verified check_suite request whose body supplies no commit SHA is
\* answered 400 at once: no task lookup, no status write, no message.
C16_NoShaRejected ==
    \A w \in Active :
        ( /\ Verified(req[w])
          /\ req[w].event = "check_suite"
          /\ NoShaSupplied(Bodies[req[w].body]) )
        => /\ req[w].pc = "done"
           /\ req[w].response = 400
           /\ req[w].lookup = "none"
           /\ req[w].task = NoTask
           /\ req[w].updated = "none"
           /\ req[w].notified = 0

C16_Witness ==
    /\ github_secret = ProviderSecret
    /\ \E w1, w2 \in Active :
        /\ req[w1].body = 6 /\ req[w1].event = "check_suite"
        /\ Verified(req[w1]) /\ req[w1].response = 400
        /\ req[w2].body = 12 /\ req[w2].event = "check_suite"
        /\ Verified(req[w2]) /\ req[w2].response = 400

\* The TaskStatus that stands for a Green or Red verdict.
VerdictStatus(status) == IF status = CI_GREEN THEN CI_PASS ELSE CI_FAIL

\* Two finished deliveries for the same commit SHA with the same Green or
\* Red verdict, resolved to the same task, all backend calls succeeding.
SameVerdictPair(w1, w2) ==
    /\ w1 # w2
    /\ Applied(req[w1])
    /\ Applied(req[w2])
    /\ req[w1].commit_info.sha = req[w2].commit_info.sha
    /\ req[w1].status = req[w2].status
    /\ req[w1].task.record_id = req[w2].task.record_id
    /\ req[w1].lookup = "ok" /\ req[w2].lookup = "ok"
    /\ req[w1].updated = "ok" /\ req[w2].updated = "ok"

\* C23: two deliveries for the same commit SHA with the same verdict, their
\* steps interleaved in any order, leave the task in the status of that
\* verdict, and each delivery has sent at most one message.
C23_RaceTolerated ==
    \A w1, w2 \in Active :
        SameVerdictPair(w1, w2) =>
            /\ \A i \in 1..Len(table) :
                  table[i].record_id = req[w1].task.record_id =>
                      table[i].status = VerdictStatus(req[w1].status)
            /\ req[w1].notified <= 1
            /\ req[w2].notified <= 1
            /\ Len(sent) <= delivered

\* Both deliveries looked the task up before either wrote: each saw the
\* status Assigned, both writes were accepted, the task is CI Pass.
C23_Witness ==
    \E w1, w2 \in Active :
        /\ SameVerdictPair(w1, w2)
        /\ req[w1].status = CI_GREEN
        /\ req[w1].task.record_id = "rec_3"
        /\ req[w1].task.status = ASSIGNED
        /\ req[w2].task.status = ASSIGNED
        /\ table[3].status = CI_PASS

\* The step of worker w that ends its request after the status write.
UpdateStep(w) == req[w].pc = "update" /\ req'[w].pc = "done"

\* C24: when the status write of a Green or Red result was accepted and the
\* notification that follows fails, the task has the new status after that
\* step; and a task's status changes only by an accepted write of a result
\* being applied, so no step puts an earlier status back.
C24_NoRollback ==
    [][ /\ \A w \in Workers :
              ( /\ UpdateStep(w)
                /\ req'[w].updated = "ok"
                /\ req[w].task.child_chat_id # ""
                /\ req'[w].notified = 0 )
              => \A i \in 1..Len(table') :
                    table'[i].record_id = req[w].task.record_id =>
                        table'[i].status = VerdictStatus(req[w].status)
        /\ \A i \in 1..Len(table) :
              table'[i].status # table[i].status =>
                  \E w \in Workers :
                      /\ UpdateStep(w)
                      /\ req'[w].updated = "ok"
                      /\ table[i].record_id = req[w].task.record_id
                      /\ table'[i].status = VerdictStatus(req[w].status)
      ]_vars

\* The write took rec_1 from another status to CI Fail, the notification
\* failed, and rec_1 is CI Fail.
C24_Witness ==
    \E w \in Active :
        /\ Applied(req[w])
        /\ req[w].status = CI_RED
        /\ req[w].task.record_id = "rec_1"
        /\ req[w].task.status = DONE
        /\ req[w].updated = "ok"
        /\ req[w].notified = 0
        /\ req[w].response = 500
        /\ table[1].status = CI_FAIL

\* A backend call of the request failed: the lookup, the status write, or
\* the notification of a task with a linked chat.
UpstreamFailed(r) ==
    \/ r.lookup = "failed"
    \/ r.updated = "failed"
    \/ (Applied(r) /\ r.task.child_chat_id # "" /\ r.notified = 0)

\* C25 (as claimed): a verified check_suite request during which the
\* lookup, the status write or the notification failed is answered 200 or
\* 204.
C25_Claim ==
    \A w \in Active :
        ( /\ req[w].pc = "done"
          /\ Verified(req[w])
          /\ req[w].event = "check_suite"
          /\ UpstreamFailed(req[w]) )
        => req[w].response \in {200, 204}

\* C28 (as claimed): a request that applied a Green or Red result issued
\* one status write, sent at most one message and only after the write, and
\* when the write reported failure it still sent the notification to a
\* linked chat and was answered 204.
C28_Claim ==
    \A w \in Active :
        LET r == req[w]
        IN  Applied(r) =>
              /\ r.updated # "none"
              /\ r.notified <= 1
              /\ r.updated = "failed" =>
                    /\ r.response = 204
                    /\ r.task.child_chat_id # "" => r.notified = 1

\* The first record of the table that carries the SHA.
FirstCarrying(tbl, sha) ==
    tbl[CHOOSE i \in 1..Len(tbl) :
            /\ tbl[i].github_commit_sha = sha
            /\ \A j \in 1..(i - 1) : tbl[j].github_commit_sha # sha]

\* C29: when several records carry the SHA, a successful lookup resolves the
\* first of them, the status write changes that record alone (to the status
\* of the verdict when the write is accepted), and a message goes to no
\* chat but that record's.
C29_OnlyFirstMatch ==
    [][ \A w \in Workers :
          /\ ( /\ req[w].pc = "lookup"
               /\ req'[w].lookup = "ok"
               /\ HasTask(req[w].commit_info.sha) )
             => req'[w].task = FirstCarrying(table, req[w].commit_info.sha)
          /\ UpdateStep(w) =>
                /\ req[w].task.record_id =
                      FirstCarrying(table, req[w].commit_info.sha).record_id
                /\ \A i \in 1..Len(table) :
                      IF table[i].record_id = req[w].task.record_id
                      THEN req'[w].updated = "ok" =>
                              table'[i].status = VerdictStatus(req[w].status)
                      ELSE table'[i] = table[i]
                /\ \A k \in (Len(sent) + 1)..Len(sent') :
                      sent'[k].receive_id = req[w].task.child_chat_id
      ]_vars

\* rec_1 and rec_2 carry the same SHA: rec_1 was resolved and written,
\* rec_2 is as it was.
C29_Witness ==
    \E w \in Active :
        /\ Applied(req[w])
        /\ req[w].status = CI_GREEN
        /\ req[w].updated = "ok"
        /\ req[w].task.record_id = "rec_1"
        /\ table[1].github_commit_sha = table[2].github_commit_sha
        /\ table[1].status = CI_PASS
        /\ table[2].status = ARCHIVED
        /\ sent = <<>>

(***************************************************************************)
(* Properties of verify_github_signature (SpecVerify).                     *)
(***************************************************************************)
Answered == vcase.phase = "output"

\* The header has the form algo=hexdigest with a supported algorithm token.
WellFormed(signature) ==
    /\ Len(signature) = 3
    /\ signature[1].kind = "word"
    /\ signature[1].text \in {"sha1", "SHA1", "Sha1", "sha256", "SHA256", "Sha256"}
    /\ signature[2] = EqTok
    /\ signature[3].kind = "hex"

\* C6: with no secret configured (None or the empty string) the verifier
\* answers TRUE for every body and every header value.
C6_NoSecretTrusts ==
    (Answered /\ vcase.secret \in {None, ""}) => vcase.result = TRUE

C6_Witness ==
    /\ Answered
    /\ vcase.secret = None
    /\ vcase.signature = <<Word("md5"), EqTok, Word("invalid")>>
    /\ vcase.result = TRUE

\* C7: with a secret configured, a header that is not algo=hexdigest, or
\* whose algorithm token is neither SHA-1 nor SHA-256, is answered FALSE.
C7_FailsClosed ==
    (Answered /\ vcase.secret \notin {None, ""} /\ ~WellFormed(vcase.signature))
        => vcase.result = FALSE

C7_Witness ==
    /\ Answered
    /\ vcase.secret = ProviderSecret
    /\ vcase.signature = <<Word("md5"), EqTok, Hmac("sha256", ProviderSecret, vcase.body)>>
    /\ vcase.result = FALSE

(***************************************************************************)
(* Properties of the chat-platform endpoint (SpecFeishu).                  *)
(***************************************************************************)
Handled == freq.path # "none"

LacksHeader(f) == ~f.timestamp.present \/ ~f.nonce.present \/ ~f.signature.present

\* The signature header is the SHA1 digest of timestamp, nonce, encrypt key
\* and body, concatenated.
SignatureEquals(f) ==
    /\ f.signature.present
    /\ f.signature.digest
    /\ f.signature.text =
         f.timestamp.text \o f.nonce.text
            \o (IF encrypt_key.present THEN encrypt_key.text ELSE EmptyStr) \o f.body

\* C4 (as claimed): a request lacking one of the three headers is answered
\* 403 and never reaches event_handler.do, whatever its body.
C4_Claim ==
    (Handled /\ LacksHeader(freq)) => (freq.response = 403 /\ ~freq.called_do)

\* C4 (amended): a request whose body is not a challenge payload and that
\* lacks one of the three headers is answered 403 and never reaches
\* event_handler.do.
C4_Amended ==
    (Handled /\ LacksHeader(freq) /\ ~IsChallenge(freq.body))
        => (freq.response = 403 /\ ~freq.called_do)

C4_Witness ==
    /\ Handled
    /\ ~IsChallenge(freq.body)
    /\ ~freq.nonce.present
    /\ freq.timestamp.present
    /\ SignatureEquals(freq)
    /\ freq.response = 403
    /\ ~freq.called_do

\* C5: a request that is not a challenge payload reaches event_handler.do
\* only if its signature header is SHA1(timestamp, nonce, encrypt key,
\* body); otherwise it is answered 403 and not dispatched.  Challenge
\* payloads are dispatched without that check.
C5_OnlyChallengeBypasses ==
    /\ (Handled /\ ~IsChallenge(freq.body)) =>
          /\ freq.called_do => SignatureEquals(freq)
          /\ ~SignatureEquals(freq) => (freq.response = 403 /\ ~freq.called_do)
    /\ (Handled /\ IsChallenge(freq.body)) => freq.called_do

C5_Witness ==
    /\ Handled
    /\ ~IsChallenge(freq.body)
    /\ SignatureEquals(freq)
    /\ freq.called_do
    /\ freq.path = "event"
    /\ Len(dispatched) = 2
    /\ dispatched[1].path = "challenge"

\* C26: between requests the SDK's verification routine is the original
\* one, whether the last dispatch returned or raised; a challenge request
\* is dispatched with the original routine in place; and a dispatch with
\* the routine replaced is the dispatch of a request that is no challenge
\* and whose signature header the endpoint itself found correct.
C26_PatchUndone ==
    /\ verify_sign = "original"
    /\ \A k \in 1..Len(dispatched) :
          /\ dispatched[k].path = "challenge" => dispatched[k].verify_sign = "original"
          /\ dispatched[k].verify_sign = "noop" => dispatched[k].path = "event"
    /\ (Handled /\ freq.called_do /\ dispatched[Len(dispatched)].verify_sign = "noop") =>
          /\ ~IsChallenge(freq.body)
          /\ SignatureEquals(freq)

\* An event whose dispatch raised, followed by a challenge request that
\* found the original routine in place.
C26_Witness ==
    /\ Len(dispatched) = 2
    /\ dispatched[1] = [path |-> "event", verify_sign |-> "noop", raised |-> TRUE]
    /\ dispatched[2].path = "challenge"
    /\ dispatched[2].verify_sign = "original"
    /\ verify_sign = "original"

(***************************************************************************)
(* Properties of parse_github_status (SpecNormalize).                      *)
(***************************************************************************)
Normalized == ncase.called

\* The shape of the payload that carries the upstream value, in the order
\* workflow_run, check_suite, status event (action = "status"), and that
\* value; Absent when the shape is no object or has no such key.
Upstream(p) ==
    IF p.json # "dict" THEN [shape |-> "none", value |-> Absent]
    ELSE IF p.workflow_run.kind # Absent
    THEN [shape |-> "workflow_run",
          value |-> IF p.workflow_run.kind = "dict" THEN p.workflow_run.conclusion ELSE Absent]
    ELSE IF p.check_suite.kind # Absent
    THEN [shape |-> "check_suite",
          value |-> IF p.check_suite.kind = "dict" THEN p.check_suite.conclusion ELSE Absent]
    ELSE IF p.action = "status"
    THEN [shape |-> "status", value |-> p.state]
    ELSE [shape |-> "none", value |-> Absent]

RunShapes == {"workflow_run", "check_suite"}

\* C17: for a workflow_run or check_suite payload the conclusion "success"
\* is normalised to Green; "failure", "cancelled" and "timed_out" to Red;
\* "waiting", "queued" and "in_progress" to Pending.
C17_RunTable ==
    LET u == Upstream(ncase.payload)
    IN  (Normalized /\ u.shape \in RunShapes) =>
          /\ u.value = "success" => ncase.status = CI_GREEN
          /\ u.value \in {"failure", "cancelled", "timed_out"} => ncase.status = CI_RED
          /\ u.value \in {"waiting", "queued", "in_progress"} => ncase.status = CI_PENDING

C17_Witness ==
    /\ Normalized
    /\ ncase.payload.workflow_run.kind = Absent
    /\ ncase.payload.check_suite.kind = "dict"
    /\ ncase.payload.check_suite.conclusion = "timed_out"
    /\ ncase.payload.action = "completed"
    /\ ncase.status = CI_RED

\* C18 (as claimed): whichever shape carries the upstream value, "failure",
\* "cancelled", "timed_out" and "error" are normalised to Red and "waiting",
\* "queued", "in_progress" and "pending" to Pending.
C18_Claim ==
    LET u == Upstream(ncase.payload)
    IN  (Normalized /\ u.shape # "none") =>
          /\ u.value \in {"failure", "cancelled", "timed_out", "error"} => ncase.status = CI_RED
          /\ u.value \in {"waiting", "queued", "in_progress", "pending"} =>
                ncase.status = CI_PENDING

\* C18 (amended): the table depends on the shape.  Under workflow_run and
\* check_suite, "failure", "cancelled" and "timed_out" are Red, "waiting",
\* "queued" and "in_progress" are Pending, "error" and "pending" are
\* Unknown.  Under a status event, "failure" and "error" are Red, "pending"
\* is Pending, and "cancelled", "timed_out", "waiting", "queued" and
\* "in_progress" are Unknown.
C18_Amended ==
    LET u == Upstream(ncase.payload)
    IN  /\ (Normalized /\ u.shape \in RunShapes) =>
              /\ u.value \in {"failure", "cancelled", "timed_out"} => ncase.status = CI_RED
              /\ u.value \in {"waiting", "queued", "in_progress"} => ncase.status = CI_PENDING
              /\ u.value \in {"error", "pending"} => ncase.status = CI_UNKNOWN
        /\ (Normalized /\ u.shape = "status") =>
              /\ u.value \in {"failure", "error"} => ncase.status = CI_RED
              /\ u.value = "pending" => ncase.status = CI_PENDING
              /\ u.value \in {"cancelled", "timed_out", "waiting", "queued", "in_progress"} =>
                    ncase.status = CI_UNKNOWN

C18_Witness ==
    /\ Normalized
    /\ Upstream(ncase.payload) = [shape |-> "status", value |-> "cancelled"]
    /\ ncase.status = CI_UNKNOWN

\* The strings of the mapping table.
Recognized ==
    {"success", "failure", "cancelled", "timed_out", "error",
     "waiting", "queued", "in_progress", "pending"}

\* C19 (as claimed): every payload is normalised to one of the four CIState
\* values, and to Unknown when the upstream value is missing or is not a
\* string of the mapping table.
C19_Claim ==
    Normalized =>
        /\ ncase.status \in CIState
        /\ Upstream(ncase.payload).value \notin Recognized => ncase.status = CI_UNKNOWN

\* C20: the state comes from the first shape present, in the order
\* workflow_run, check_suite, status event: the payload is normalised to
\* what the payload carrying that shape alone is normalised to, so the
\* shapes after the first have no influence.
C20_Priority ==
    (ncase.called /\ ncase.called_top) => ncase.status = ncase.top

C20_Witness ==
    /\ ncase.called
    /\ ncase.called_top
    /\ ncase.payload.workflow_run.kind = "dict"
    /\ ncase.payload.workflow_run.conclusion = "failure"
    /\ ncase.payload.check_suite.kind = "dict"
    /\ ncase.payload.check_suite.conclusion = "success"
    /\ ncase.payload.action = "status"
    /\ ncase.payload.state = "pending"
    /\ ncase.status = CI_RED
    /\ ncase.top = CI_RED

(***************************************************************************)
(* Properties of extract_commit_info (SpecExtract).                        *)
(***************************************************************************)
Extracted == ecase.called /\ ecase.called_primary

\* commits[0] of the payload is an object.
HasCommitEntry(p) == p.commits # <<>> /\ p.commits[1].kind = "dict"

\* C21: each of sha, message and url follows first-non-empty-wins: a value
\* supplied by the primary shape is the result, and the result differs from
\* what the primary shape supplied only for a field the primary shape left
\* empty, which then holds the value of commits[0].  The fields branch and
\* repo are never taken from commits[0].
C21_FirstNonEmptyWins ==
    Extracted =>
        LET p == ecase.payload
            info == ecase.info
            primary == ecase.primary
        IN  /\ primary.sha # EmptyStr => info.sha = primary.sha
            /\ primary.message # "" => info.message = primary.message
            /\ primary.url # "" => info.url = primary.url
            /\ info.sha # primary.sha =>
                  (HasCommitEntry(p) /\ info.sha = p.commits[1].id)
            /\ info.message # primary.message =>
                  (HasCommitEntry(p) /\ info.message = p.commits[1].message)
            /\ info.url # primary.url =>
                  (HasCommitEntry(p) /\ info.url = p.commits[1].url)
            /\ info.branch = primary.branch
            /\ info.repo = primary.repo

\* A workflow_run that supplies sha and url, and a commits[0] that carries
\* all three fields: only the message is taken from commits[0].
C21_Witness ==
    /\ Extracted
    /\ ecase.payload.workflow_run.kind = "dict"
    /\ ecase.payload.workflow_run.head_sha = ShaA
    /\ ecase.payload.commits = <<CommitEntry(ShaB, "msg", "https://c/1")>>
    /\ ecase.info.sha = ShaA
    /\ ecase.info.url = "https://ci/run"
    /\ ecase.info.message = "msg"
    /\ ecase.primary.message = ""

(***************************************************************************)
(* Properties of check_inactive_tasks (SpecSweep).                         *)
(***************************************************************************)
\* The task is Assigned or InProgress, was last modified more than 48
\* hours before the run, and has a linked chat and an assignee.
DueForReminder(task) ==
    /\ task.status \in {ASSIGNED, IN_PROGRESS}
    /\ task.last_modified_time.kind = "number"
    /\ task.last_modified_time.hours > 48
    /\ task.child_chat_id # ""
    /\ task.assignee_id # ""

\* The reminders of the last run that concern the task.
RemindersFor(task) ==
    {k \in 1..Len(sweep_result.sent) : sweep_result.sent[k].record_id = task.record_id}

\* C22 (as claimed): a run of the job sends exactly one reminder, to the
\* task's linked chat, for every task that is due, and none for any other
\* task.
C22_Claim ==
    sweep_result.ran =>
        \A i \in 1..Len(sweep_tasks) :
            LET task == sweep_tasks[i]
            IN  /\ Cardinality(RemindersFor(task)) = (IF DueForReminder(task) THEN 1 ELSE 0)
                /\ \A k \in RemindersFor(task) :
                      sweep_result.sent[k].receive_id = task.child_chat_id

\* C30: a run of the job never lets an exception reach the scheduler and
\* never changes a task; an exception is logged and ends the run, so the
\* tasks from the failing point on get no reminder; a task without a
\* last-modified time gets none either.
C30_SweepContained ==
    [][ /\ sweep_tasks' = sweep_tasks
        /\ sweep_runs' # sweep_runs =>
              /\ sweep_result'.ran
              /\ ~sweep_result'.propagated
              /\ sweep_result'.raised =>
                    /\ sweep_result'.logged
                    /\ \A k \in 1..Len(sweep_result'.sent) :
                          \E i \in 1..Len(sweep_tasks) :
                              /\ sweep_tasks[i].record_id = sweep_result'.sent[k].record_id
                              /\ i < sweep_result'.at
              /\ \A i \in 1..Len(sweep_tasks) :
                    sweep_tasks[i].last_modified_time.kind = "missing" =>
                        \A k \in 1..Len(sweep_result'.sent) :
                            sweep_result'.sent[k].record_id # sweep_tasks[i].record_id
      ]_vars

\* A run over a table with a task that is due: the fetch raised, the
\* exception was logged and did not propagate, and nothing was sent.
C30_Witness ==
    /\ sweep_runs = 2
    /\ sweep_result.ran
    /\ sweep_result.raised
    /\ sweep_result.logged
    /\ ~sweep_result.propagated
    /\ DueForReminder(sweep_tasks[1])
    /\ sweep_tasks[2].last_modified_time.kind = "missing"
    /\ reminders = <<>>

(***************************************************************************)
(* Properties of _get_all_records (SpecPagesFair).                         *)
(***************************************************************************)
\* The record ids of the pages, one page after the other; of a page with
\* an item that cannot be read, the records before that item.
RECURSIVE RecordsOf(_)
RecordsOf(pgs) ==
    IF pgs = <<>> THEN <<>>
    ELSE LET last == pgs[Len(pgs)]
             good == IF last.kind # "ok" THEN <<>>
                     ELSE IF \E k \in 1..Len(last.items) : last.items[k].fields # "dict"
                     THEN SubSeq(last.items, 1,
                                 (CHOOSE k \in 1..Len(last.items) :
                                     /\ last.items[k].fields # "dict"
                                     /\ \A j \in 1..(k - 1) : last.items[j].fields = "dict") - 1)
                     ELSE last.items
         IN  RecordsOf(SubSeq(pgs, 1, Len(pgs) - 1)) \o [k \in 1..Len(good) |-> good[k].record_id]

\* The page ends the loop: the call raised, the response was unsuccessful,
\* an item could not be read, or the page reports no more data.
EndsLoop(resp) ==
    \/ resp.kind # "ok"
    \/ ~resp.has_more
    \/ \E k \in 1..Len(resp.items) : resp.items[k].fields # "dict"

PagesOrderly ==
    /\ Len(asked) = Len(pages)
    /\ pager.all_records = RecordsOf(pages)
    /\ \A k \in 1..Len(pages) :
          /\ k < Len(pages) => ~EndsLoop(pages[k])
          /\ asked[k] = (IF k = 1 \/ pages[k - 1].page_token = ""
                         THEN None ELSE pages[k - 1].page_token)
    /\ pager.pc = "done" <=> (pages # <<>> /\ EndsLoop(pages[Len(pages)]))

\* C27: the loop ends with the first page that reports no more data, is
\* unsuccessful or raises; what it has collected is always the records of
\* the pages fetched so far, in page order; every request after the first
\* carries the token of the page before it; and against a backend that
\* stops reporting more data or fails by some page, the loop terminates.
C27_PagesTerminate ==
    /\ []PagesOrderly
    /\ <>(pager.pc = "done")

\* Three pages fetched with the tokens handed on, the third call raised,
\* and the records of the first two pages are returned.
C27_Witness ==
    /\ pager.pc = "done"
    /\ Len(pages) = 3
    /\ pages[1].page_token = "t1"
    /\ pages[2].page_token = "t2"
    /\ pages[3].kind = "raise"
    /\ asked = <<None, "t1", "t2">>
    /\ pager.all_records = <<"r1", "r1", "r2">>

=============================================================================
